---- MODULE Spec2Model ----
(***************************************************************************)
(* Model of fetch_reddit_posts.py: the feed fetcher that walks a fixed     *)
(* list of subreddits, turns the listing of each into processed posts,     *)
(* fetches the comments of each post and writes reddit_posts.json and      *)
(* posts_summary.txt, with a built-in fallback data set.                   *)
(*                                                                         *)
(* Python values.  A str that the code inspects character by character     *)
(* (selftext, url, permalink, comment body) is a sequence of one-character *)
(* strings inside a tagged record; None is the record tagged "none"; a     *)
(* JSON number met where a str is expected is tagged "num"; a key absent   *)
(* from a dict is tagged "missing".  Strings the code only copies (title,  *)
(* author, ids, the literals of the fallback data) stay TLA+ strings.      *)
(***************************************************************************)
EXTENDS Integers, Sequences, FiniteSets, TLC

VARIABLES pc, ci, todo, all_posts, all_comments, post_id_counter,
          json_file, summary_file, last_io, ev, failed_listings, arg, res

vars == <<pc, ci, todo, all_posts, all_comments, post_id_counter,
          json_file, summary_file, last_io, ev, failed_listings, arg, res>>

runvars == <<ci, todo, all_posts, all_comments, post_id_counter,
             json_file, summary_file, last_io, ev, failed_listings>>

(***************************************************************************)
(* Bounds of the model                                                     *)
(***************************************************************************)
MaxChannels == 2
MaxChildren == 4
MaxPosts == 2
MaxResponseLen == 6
MaxUrlParts == 3
MaxTextParts == 3
Now == 90000

(***************************************************************************)
(* Python values                                                           *)
(***************************************************************************)
Str(s) == [tag |-> "str", s |-> s]
None == [tag |-> "none", s |-> <<>>]
Num == [tag |-> "num", s |-> <<>>]
Missing == [tag |-> "missing", s |-> <<>>]

IsStr(v) == v.tag = "str"

\* dict.get(key, default): the default only replaces an absent key
Get(v, default) == IF v.tag = "missing" THEN default ELSE v

\* truth value of a Python object: None and "" are false, a non-zero number true
Truthy(v) == \/ v.tag = "num"
             \/ v.tag = "str" /\ v.s # <<>>

\* the result of a call: a returned value or a raised exception
Ret(v) == [raised |-> FALSE, val |-> v]
Raise == [raised |-> TRUE]

(***************************************************************************)
(* str methods                                                             *)
(***************************************************************************)
\* the positions of s where pat starts
Occurrences(s, pat) ==
    {i \in 1..(Len(s) - Len(pat) + 1) : SubSeq(s, i, i + Len(pat) - 1) = pat}

RECURSIVE Replace(_, _, _)
\* str.replace(pat, rep): leftmost non-overlapping occurrences
Replace(s, pat, rep) ==
    IF Occurrences(s, pat) = {} THEN s
    ELSE LET first == CHOOSE i \in Occurrences(s, pat) :
                          \A j \in Occurrences(s, pat) : i <= j
         IN  SubSeq(s, 1, first - 1) \o rep
             \o Replace(SubSeq(s, first + Len(pat), Len(s)), pat, rep)

\* pat in s
Contains(s, pat) ==
    \E i \in 1..(Len(s) - Len(pat) + 1) : SubSeq(s, i, i + Len(pat) - 1) = pat

\* s.endswith(pat)
EndsWith(s, pat) ==
    /\ Len(s) >= Len(pat)
    /\ SubSeq(s, Len(s) - Len(pat) + 1, Len(s)) = pat

Whitespace == {" ", "\n", "\t"}

RECURSIVE Split(_)
\* str.split(): the maximal runs of non-whitespace characters
Split(s) ==
    IF s = <<>> THEN <<>>
    ELSE IF Head(s) \in Whitespace THEN Split(Tail(s))
         ELSE LET n == IF \E i \in 1..Len(s) : s[i] \in Whitespace
                       THEN (CHOOSE i \in 1..Len(s) :
                                /\ s[i] \in Whitespace
                                /\ \A j \in 1..(i - 1) : s[j] \notin Whitespace) - 1
                       ELSE Len(s)
              IN  <<SubSeq(s, 1, n)>> \o Split(SubSeq(s, n + 1, Len(s)))

RECURSIVE Join(_)
\* ' '.join(words)
Join(words) ==
    IF words = <<>> THEN <<>>
    ELSE IF Len(words) = 1 THEN words[1]
         ELSE words[1] \o <<" ">> \o Join(Tail(words))

UpperToLower ==
    [c \in {"A", "B", "C", "D", "E", "F", "G", "H", "I", "J", "K", "L", "M",
            "N", "O", "P", "Q", "R", "S", "T", "U", "V", "W", "X", "Y", "Z"} |->
        CASE c = "A" -> "a" [] c = "B" -> "b" [] c = "C" -> "c" [] c = "D" -> "d"
          [] c = "E" -> "e" [] c = "F" -> "f" [] c = "G" -> "g" [] c = "H" -> "h"
          [] c = "I" -> "i" [] c = "J" -> "j" [] c = "K" -> "k" [] c = "L" -> "l"
          [] c = "M" -> "m" [] c = "N" -> "n" [] c = "O" -> "o" [] c = "P" -> "p"
          [] c = "Q" -> "q" [] c = "R" -> "r" [] c = "S" -> "s" [] c = "T" -> "t"
          [] c = "U" -> "u" [] c = "V" -> "v" [] c = "W" -> "w" [] c = "X" -> "x"
          [] c = "Y" -> "y" [] c = "Z" -> "z"]

\* str.lower()
Lower(s) == [i \in 1..Len(s) |->
                IF s[i] \in DOMAIN UpperToLower THEN UpperToLower[s[i]] ELSE s[i]]

(***************************************************************************)
(* Literals of the source                                                  *)
(***************************************************************************)
DeletedMarker == <<"[", "d", "e", "l", "e", "t", "e", "d", "]">>
RemovedMarker == <<"[", "r", "e", "m", "o", "v", "e", "d", "]">>
Ellipsis == <<".", ".", ".">>
EntGt == <<"&", "g", "t", ";">>
EntLt == <<"&", "l", "t", ";">>
EntAmp == <<"&", "a", "m", "p", ";">>
ImageExts == { <<".", "j", "p", "g">>, <<".", "j", "p", "e", "g">>,
               <<".", "p", "n", "g">>, <<".", "g", "i", "f">>,
               <<".", "w", "e", "b", "p">> }

CommentCap == 300
TextCap == 500
MinCommentLen == 10
TopComments == 5
TopPosts == 3

(***************************************************************************)
(* clean_comment_text, clean_text                                          *)
(***************************************************************************)
\* text[:cap] + "..." when len(text) > cap
Truncate(s, cap) == IF Len(s) > cap THEN SubSeq(s, 1, cap) \o Ellipsis ELSE s

StripMarkup(s) ==
    Replace(Replace(Replace(Replace(Replace(s, <<"*", "*">>, <<>>), <<"*">>, <<>>),
                            EntGt, <<">">>), EntLt, <<"<">>), EntAmp, <<"&">>)

\* clean_comment_text that collapses the whitespace before it strips the
\* markers
clean_comment_text_CollapseFirst(text) ==
    IF ~Truthy(text) \/ text \in {Str(DeletedMarker), Str(RemovedMarker)}
    THEN Ret(<<>>)
    ELSE IF ~IsStr(text) THEN Raise
    ELSE Ret(Truncate(StripMarkup(Join(Split(text.s))), CommentCap))

clean_comment_text(text) ==
    IF ~Truthy(text) \/ text \in {Str(DeletedMarker), Str(RemovedMarker)}
    THEN Ret(<<>>)
    ELSE IF ~IsStr(text) THEN Raise
    ELSE Ret(Truncate(Join(Split(StripMarkup(text.s))), CommentCap))

\* clean_text that strips the markers and the entities as
\* clean_comment_text does
clean_text_StripsMarkup(text) ==
    IF ~Truthy(text) \/ text \in {Str(DeletedMarker), Str(RemovedMarker)}
    THEN Ret(<<>>)
    ELSE IF ~IsStr(text) THEN Raise
    ELSE Ret(Truncate(Join(Split(StripMarkup(text.s))), TextCap))

\* clean_text that tests the markers after the whitespace is collapsed
clean_text_MarkerAfterCollapse(text) ==
    IF ~Truthy(text) THEN Ret(<<>>)
    ELSE IF ~IsStr(text) THEN Raise
    ELSE IF Join(Split(text.s)) \in {DeletedMarker, RemovedMarker} THEN Ret(<<>>)
    ELSE Ret(Truncate(Join(Split(text.s)), TextCap))

clean_text(text) ==
    IF ~Truthy(text) \/ text \in {Str(DeletedMarker), Str(RemovedMarker)}
    THEN Ret(<<>>)
    ELSE IF ~IsStr(text) THEN Raise
    ELSE Ret(Truncate(Join(Split(text.s)), TextCap))

(***************************************************************************)
(* convert_reddit_time                                                     *)
(***************************************************************************)
\* a created_utc value: a number of seconds, or a value that is no number
Ts(n) == [tag |-> "int", n |-> n]
BadTs == [tag |-> "str", n |-> 0]

HoursAgo(n) == ToString(n) \o " hours ago"

\* The set of strings the call can return: random.randint makes it a choice.
\* now is datetime.now() as seconds; diff.days and diff.seconds are the
\* normalised timedelta fields (0 <= seconds < 86400).
convert_reddit_time(utc_timestamp, now) ==
    IF utc_timestamp.tag = "int" /\ utc_timestamp.n = 0
    THEN {HoursAgo(n) : n \in 1..6}
    ELSE IF utc_timestamp.tag # "int"
    THEN {HoursAgo(n) : n \in 1..12}
    ELSE LET diff == now - utc_timestamp.n
             days == diff \div 86400
             seconds == diff % 86400
         IN  IF days > 0 THEN {ToString(days) \o " days ago"}
             ELSE IF seconds > 3600 THEN {HoursAgo(seconds \div 3600)}
             ELSE IF seconds > 60 THEN {ToString(seconds \div 60) \o " minutes ago"}
             ELSE {"just now"}

(***************************************************************************)
(* determine_post_type, get_image_url                                      *)
(***************************************************************************)
\* any(ext in url.lower() for ext in [...])
HasImageExt(url) == \E ext \in ImageExts : Contains(Lower(url), ext)

determine_post_type(post) ==
    LET url == Get(post.url, Str(<<>>))
        selftext == Get(post.selftext, Str(<<>>))
    IN  IF Truthy(selftext) THEN Ret("text")
        ELSE IF ~IsStr(url) THEN Raise
        ELSE IF HasImageExt(url.s) THEN Ret("image")
        ELSE IF Truthy(url) /\ url # Get(post.permalink, Str(<<>>)) THEN Ret("link")
        ELSE Ret("text")

\* post.preview: absent key, a value that is no dict, or a dict whose
\* 'images' key is absent, an empty list, or a list with a source url
NoPreview == [tag |-> "missing", images |-> "absent", url |-> <<>>]
NullPreview == [tag |-> "none", images |-> "absent", url |-> <<>>]
PreviewNoImages == [tag |-> "dict", images |-> "absent", url |-> <<>>]
PreviewEmpty == [tag |-> "dict", images |-> "empty", url |-> <<>>]
PreviewOf(u) == [tag |-> "dict", images |-> "list", url |-> u]

get_image_url(post) ==
    LET url == Get(post.url, Str(<<>>))
    IN  IF ~IsStr(url) THEN Raise
        ELSE IF HasImageExt(url.s) THEN Ret(url)
        ELSE IF post.preview.tag = "missing" THEN Ret(None)
        ELSE IF post.preview.tag # "dict" THEN Raise
        ELSE IF post.preview.images = "list"
             THEN Ret(Str(Replace(post.preview.url, EntAmp, <<"&">>)))
             ELSE Ret(None)

(***************************************************************************)
(* fetch_post_comments                                                     *)
(*                                                                         *)
(* A response is what urlopen and json.loads give for <permalink>.json:    *)
(*   "fail"       urlopen raises (HTTP error, transport failure)           *)
(*   "badjson"    the body is no JSON document                             *)
(*   "short"      a JSON array with fewer than two elements                *)
(*   "nochildren" data[1] has no data.children                             *)
(*   "ok"         data[1].data.children is the sequence children           *)
(* An entry of children has a kind ("t1", "more", or "missing" when the    *)
(* key is absent), may lack its 'data' dict, and carries the fields read   *)
(* from it.                                                                *)
(***************************************************************************)
Response(status, children) == [status |-> status, children |-> children]

Entry(kind, has_data, body, ups, id) ==
    [kind |-> kind, has_data |-> has_data, body |-> body, author |-> "commenter",
     ups |-> ups, created_utc |-> Ts(Now - 7200), id |-> id]

Max(a, b) == IF a >= b THEN a ELSE b

\* s[:n]
Take(s, n) == SubSeq(s, 1, IF Len(s) < n THEN Len(s) ELSE n)

\* the time field of a sub-item; the entries enumerated below carry a valid
\* positive created_utc, for which convert_reddit_time has a single result
CommentTime(utc_timestamp, now) ==
    CHOOSE t \in convert_reddit_time(utc_timestamp, now) : TRUE

\* ProcessComment without the length test of line 218
ProcessComment_NoLengthTest(comments, comment_data, now) ==
    IF comment_data.kind = "missing" THEN Raise
    ELSE IF comment_data.kind # "t1" THEN Ret(comments)
    ELSE IF ~comment_data.has_data THEN Raise
    ELSE IF Get(comment_data.body, None) \in {Str(DeletedMarker), Str(RemovedMarker), None}
         THEN Ret(comments)
    ELSE LET comment_text == clean_comment_text(Get(comment_data.body, Str(<<>>)))
         IN  IF comment_text.raised THEN Raise
             ELSE Ret(Append(comments,
                        [author |-> comment_data.author,
                         text |-> comment_text.val,
                         upvotes |-> Max(comment_data.ups, 1),
                         time |-> CommentTime(comment_data.created_utc, now),
                         reddit_id |-> comment_data.id]))

\* lines 209-226: what one entry of the loop does to the list comments;
\* the result is raised when a statement of the body raises
ProcessComment(comments, comment_data, now) ==
    IF comment_data.kind = "missing" THEN Raise
    ELSE IF comment_data.kind # "t1" THEN Ret(comments)
    ELSE IF ~comment_data.has_data THEN Raise
    ELSE IF Get(comment_data.body, None) \in {Str(DeletedMarker), Str(RemovedMarker), None}
         THEN Ret(comments)
    ELSE LET comment_text == clean_comment_text(Get(comment_data.body, Str(<<>>)))
         IN  IF comment_text.raised THEN Raise
             ELSE IF comment_text.val # <<>> /\ Len(comment_text.val) > MinCommentLen
             THEN Ret(Append(comments,
                        [author |-> comment_data.author,
                         text |-> comment_text.val,
                         upvotes |-> Max(comment_data.ups, 1),
                         time |-> CommentTime(comment_data.created_utc, now),
                         reddit_id |-> comment_data.id]))
             ELSE Ret(comments)

RECURSIVE CommentLoop(_, _, _)
RECURSIVE CommentLoop_KeepsCollected(_, _, _)
\* CommentLoop that stops at an entry that raises and keeps what it collected
CommentLoop_KeepsCollected(comments, children, now) ==
    IF children = <<>> THEN Ret(comments)
    ELSE LET r == ProcessComment(comments, Head(children), now)
         IN  IF r.raised THEN Ret(comments)
             ELSE CommentLoop_KeepsCollected(r.val, Tail(children), now)

\* the for loop of line 208 over the entries still to visit
CommentLoop(comments, children, now) ==
    IF children = <<>> THEN Ret(comments)
    ELSE LET r == ProcessComment(comments, Head(children), now)
         IN  IF r.raised THEN Raise ELSE CommentLoop(r.val, Tail(children), now)

\* fetch_post_comments that filters every entry and then keeps five
fetch_post_comments_FilterThenCap(response, now) ==
    IF response.status \in {"fail", "badjson"} THEN [failed |-> TRUE, val |-> <<>>]
    ELSE IF response.status # "ok" THEN [failed |-> FALSE, val |-> <<>>]
    ELSE LET r == CommentLoop(<<>>, response.children, now)
         IN  IF r.raised THEN [failed |-> TRUE, val |-> <<>>]
             ELSE [failed |-> FALSE, val |-> Take(r.val, TopComments)]

\* failed: the except clause of line 230 ran; val: the list returned
fetch_post_comments(response, now) ==
    IF response.status \in {"fail", "badjson"} THEN [failed |-> TRUE, val |-> <<>>]
    ELSE IF response.status # "ok" THEN [failed |-> FALSE, val |-> <<>>]
    ELSE LET r == CommentLoop(<<>>, Take(response.children, TopComments), now)
         IN  IF r.raised THEN [failed |-> TRUE, val |-> <<>>]
             ELSE [failed |-> FALSE, val |-> r.val]

(***************************************************************************)
(* create_fallback_posts, create_fallback_comments                         *)
(***************************************************************************)
create_fallback_posts ==
    << [id |-> 1, subreddit |-> "science",
        title |-> "Breakthrough study reveals how social media algorithms fundamentally alter human cognitive patterns",
        author |-> "cognitive_researcher", time |-> "4 hours ago",
        upvotes |-> 1847, comments |-> 423,
        text |-> "A comprehensive study tracking 50,000 participants reveals how algorithmic content curation affects neural pathways and critical thinking abilities.",
        type |-> "text", image |-> "None"],
       [id |-> 2, subreddit |-> "blurrypicturesofcats",
        title |-> "My cat moving at the speed of light",
        author |-> "cat_photographer", time |-> "2 hours ago",
        upvotes |-> 2341, comments |-> 89,
        text |-> "",
        type |-> "image",
        image |-> "https://images.unsplash.com/photo-1514888286974-6c03e2ca1dba?w=600&h=400&fit=crop"],
       [id |-> 3, subreddit |-> "dbz",
        title |-> "Goku vs Superman: Who would win in a real fight?",
        author |-> "anime_debater", time |-> "6 hours ago",
        upvotes |-> 756, comments |-> 234,
        text |-> "Settling this debate once and for all with power scaling analysis...",
        type |-> "text", image |-> "None"] >>

create_fallback_comments ==
    (1 :> << [author |-> "research_fan",
              text |-> "This is fascinating research. The implications for understanding digital communication are huge.",
              upvotes |-> 45, time |-> "2 hours ago"],
             [author |-> "skeptical_scientist",
              text |-> "While interesting, I wonder about the sample size and methodology. Need to see the peer review.",
              upvotes |-> 23, time |-> "1 hour ago"] >>)
    @@ (2 :> << [author |-> "cat_lover_99",
                 text |-> "This is art. Pure, blurry art.",
                 upvotes |-> 67, time |-> "1 hour ago"] >>)
    @@ (3 :> << [author |-> "power_scaler",
                 text |-> "Goku wins easily. Ultra Instinct is basically unbeatable.",
                 upvotes |-> 34, time |-> "3 hours ago"],
                [author |-> "superman_fan",
                 text |-> "Superman has no limits though. He always finds a way to win.",
                 upvotes |-> 28, time |-> "2 hours ago"] >>)

(***************************************************************************)
(* fetch_reddit_posts_and_comments: the configured channels                *)
(***************************************************************************)
subreddits ==
    << "science", "survival", "onebag", "xxfitness", "rustyrails",
       "blurrypicturesofcats", "scams", "dbz", "cartalkuk", "sales",
       "accidentalwesanderson", "worldbuilding", "aww", "pics", "cozyplaces",
       "malelivingspaces", "evilbuildings", "askreddit", "todayilearned",
       "explainlikeimfive", "changemyview", "unpopularopinion",
       "showerthoughts", "futurology", "cogsci" >>

\* the prefix of the list that a modelled run walks
NumChannels == IF MaxChannels < Len(subreddits) THEN MaxChannels ELSE Len(subreddits)

(***************************************************************************)
(* One child of a listing: post_data, with post_data['data'] the post.     *)
(***************************************************************************)
RawPost(has_data, removed, title, id, permalink, url, selftext, preview) ==
    [has_data |-> has_data, removed_by_category |-> removed, title |-> title,
     id |-> id, permalink |-> permalink, url |-> url, selftext |-> selftext,
     preview |-> preview, author |-> Missing, ups |-> 7, num_comments |-> 2,
     created_utc |-> Ts(Now - 600)]

UnknownUser == <<"u", "n", "k", "n", "o", "w", "n", "_", "u", "s", "e", "r">>
RedditHost == <<"h", "t", "t", "p", "s", ":", "/", "/", "r", "e", "d", "d", "i", "t",
                ".", "c", "o", "m">>

\* str(v) as an f-string renders it
Format(v) == IF IsStr(v) THEN v.s ELSE <<"N", "o", "n", "e">>

\* what the body of the for loop over the children does with one child
\* (lines 69-113), up to and including the append of line 96:
\*   "raise"  a statement before the append raised
\*   "skip"   the continue of line 73
\*   "post"   processed_post was built; val is the dict without its time
BuildPost(post_data, counter, subreddit) ==
    IF ~post_data.has_data THEN [out |-> "raise"]
    ELSE IF post_data.removed_by_category
            \/ Get(post_data.title, None) = Str(DeletedMarker)
    THEN [out |-> "skip"]
    ELSE LET text == clean_text(Get(post_data.selftext, Str(<<>>)))
             type == determine_post_type(post_data)
             image == get_image_url(post_data)
         IN  IF text.raised \/ type.raised \/ image.raised THEN [out |-> "raise"]
             ELSE [out |-> "post",
                   val |-> [id |-> counter,
                            subreddit |-> subreddit,
                            title |-> Get(post_data.title, Str(<<>>)),
                            author |-> Get(post_data.author, Str(UnknownUser)),
                            upvotes |-> post_data.ups,
                            comments |-> post_data.num_comments,
                            text |-> text.val,
                            url |-> Get(post_data.url, Str(<<>>)),
                            type |-> type.val,
                            image |-> image.val,
                            reddit_id |-> Get(post_data.id, Str(<<>>)),
                            reddit_permalink |->
                                RedditHost \o Format(Get(post_data.permalink, Str(<<>>)))]]

\* title[:60] of line 98, title[:80] of line 154: a slice needs a str
Sliceable(title) == IsStr(title)

(***************************************************************************)
(* fetch_reddit_posts_and_comments: state and steps                        *)
(*                                                                         *)
(* pc        "loop"     at the head of the for loop over subreddits, ci    *)
(*                      the index of the channel to fetch next             *)
(*           "posts"    inside the loop over the children of channel ci,   *)
(*                      todo children of data['data']['children'][:3] left *)
(*           "summary"  reddit_posts.json written, summary to write        *)
(*           "except"   in the handler of line 169                         *)
(*           "done"     the function returned True                         *)
(*           "raised"   an exception left the function                     *)
(* json_file, summary_file: what this run wrote to the two output files    *)
(* last_io   req: the kind of the last request sent; slept: time.sleep ran *)
(*           since; prev: the kind of the request before it; gap: a sleep  *)
(*           ran between the two                                           *)
(* ev        the step taken last, with the sub-item response it drew       *)
(* failed_listings  the number of channels requested so far whose listing  *)
(*           request failed                                                *)
(***************************************************************************)
NoFile == [state |-> "unwritten"]
NoResponse == Response("none", <<>>)
Event(kind, out, failed, resp) ==
    [kind |-> kind, out |-> out, failed |-> failed, resp |-> resp]

Min(a, b) == IF a <= b THEN a ELSE b

\* urlopen is called for a request of the given kind
Request(io, kind) == [req |-> kind, slept |-> FALSE, prev |-> io.req, gap |-> io.slept]

\* time.sleep returns
Sleep(io) == [io EXCEPT !.slept = TRUE]

InitRun ==
    /\ pc = "loop"
    /\ ci = 1
    /\ todo = 0
    /\ all_posts = <<>>
    /\ all_comments = <<>>
    /\ post_id_counter = 1
    /\ json_file = NoFile
    /\ summary_file = NoFile
    /\ last_io = [req |-> "none", slept |-> FALSE, prev |-> "none", gap |-> FALSE]
    /\ ev = Event("init", "none", FALSE, NoResponse)
    /\ failed_listings = 0
    /\ arg = <<>>
    /\ res = <<>>

\* ChannelExcept without the guard of line 118: the exception reaches the
\* handler of line 169
ChannelExcept_Unguarded ==
    /\ pc' = "except"
    /\ ci' = ci
    /\ todo' = 0

\* lines 118-120: the handler of the per-channel guard, then the next channel
ChannelExcept ==
    /\ pc' = "loop"
    /\ ci' = ci + 1
    /\ todo' = 0

\* lines 56-64 raise: HTTP error, transport failure, or a body that is no JSON
ListingFails ==
    /\ pc = "loop"
    /\ ci <= NumChannels
    /\ ChannelExcept
    /\ last_io' = Request(last_io, "listing")
    /\ ev' = Event("listing", "fail", FALSE, NoResponse)
    /\ failed_listings' = failed_listings + 1
    /\ UNCHANGED <<all_posts, all_comments, post_id_counter, json_file,
                   summary_file, arg, res>>

\* lines 56-68: the listing arrives with n children (n = 0 also stands for a
\* document without data.children); the loop will visit the first three
ListingOk(n) ==
    /\ pc = "loop"
    /\ ci <= NumChannels
    /\ pc' = "posts"
    /\ todo' = Min(n, TopPosts)
    /\ last_io' = Request(last_io, "listing")
    /\ ev' = Event("listing", "ok", FALSE, NoResponse)
    /\ failed_listings' = failed_listings
    /\ UNCHANGED <<ci, all_posts, all_comments, post_id_counter, json_file,
                   summary_file, arg, res>>

\* a statement of lines 69-94 raises: nothing was appended
PostRaises(post_data) ==
    /\ pc = "posts"
    /\ todo > 0
    /\ BuildPost(post_data, post_id_counter, subreddits[ci]).out = "raise"
    /\ ChannelExcept
    /\ ev' = Event("post", "raise", FALSE, NoResponse)
    /\ UNCHANGED <<all_posts, all_comments, post_id_counter, json_file,
                   summary_file, last_io, failed_listings, arg, res>>

\* the continue of line 73
PostSkipped(post_data) ==
    /\ pc = "posts"
    /\ todo > 0
    /\ BuildPost(post_data, post_id_counter, subreddits[ci]).out = "skip"
    /\ todo' = todo - 1
    /\ ev' = Event("post", "skip", FALSE, NoResponse)
    /\ UNCHANGED <<pc, ci, all_posts, all_comments, post_id_counter, json_file,
                   summary_file, last_io, failed_listings, arg, res>>

\* lines 80-96 with the time field filled in
Processed(post_data, counter, subreddit) ==
    { ("time" :> t) @@ BuildPost(post_data, counter, subreddit).val :
        t \in convert_reddit_time(post_data.created_utc, Now) }

\* line 98 raises after the append of line 96: title[:60] of a title that
\* is no str
PostAppendedThenRaises(post_data) ==
    /\ pc = "posts"
    /\ todo > 0
    /\ Len(all_posts) < MaxPosts
    /\ BuildPost(post_data, post_id_counter, subreddits[ci]).out = "post"
    /\ \E processed_post \in Processed(post_data, post_id_counter, subreddits[ci]) :
          /\ ~Sliceable(processed_post.title)
          /\ all_posts' = Append(all_posts, processed_post)
    /\ ChannelExcept
    /\ ev' = Event("post", "appended_raise", FALSE, NoResponse)
    /\ UNCHANGED <<all_comments, post_id_counter, json_file, summary_file,
                   last_io, failed_listings, arg, res>>

\* lines 96-113 with reddit_id and permalink both true: the sub-items are
\* fetched, stored when there are any, then the counter moves and sleep(2)
PostWithComments(post_data, response) ==
    /\ pc = "posts"
    /\ todo > 0
    /\ Len(all_posts) < MaxPosts
    /\ BuildPost(post_data, post_id_counter, subreddits[ci]).out = "post"
    /\ Truthy(Get(post_data.id, Str(<<>>)))
    /\ Truthy(Get(post_data.permalink, Str(<<>>)))
    /\ \E processed_post \in Processed(post_data, post_id_counter, subreddits[ci]) :
          /\ Sliceable(processed_post.title)
          /\ all_posts' = Append(all_posts, processed_post)
    /\ LET comments == fetch_post_comments(response, Now)
       IN  /\ all_comments' = IF comments.val # <<>>
                              THEN (post_id_counter :> comments.val) @@ all_comments
                              ELSE all_comments
           /\ ev' = Event("post", "fetched", comments.failed, response)
    /\ post_id_counter' = post_id_counter + 1
    /\ todo' = todo - 1
    /\ last_io' = Sleep(Request(last_io, "comments"))
    /\ UNCHANGED <<pc, ci, json_file, summary_file, failed_listings, arg, res>>

\* lines 96-113 when reddit_id or permalink is empty: no second request
PostWithoutComments(post_data) ==
    /\ pc = "posts"
    /\ todo > 0
    /\ Len(all_posts) < MaxPosts
    /\ BuildPost(post_data, post_id_counter, subreddits[ci]).out = "post"
    /\ ~(Truthy(Get(post_data.id, Str(<<>>))) /\ Truthy(Get(post_data.permalink, Str(<<>>))))
    /\ \E processed_post \in Processed(post_data, post_id_counter, subreddits[ci]) :
          /\ Sliceable(processed_post.title)
          /\ all_posts' = Append(all_posts, processed_post)
    /\ post_id_counter' = post_id_counter + 1
    /\ todo' = todo - 1
    /\ last_io' = Sleep(last_io)
    /\ ev' = Event("post", "nofetch", FALSE, NoResponse)
    /\ UNCHANGED <<pc, ci, all_comments, json_file, summary_file, failed_listings, arg, res>>

\* line 116: the children are exhausted, sleep(1), next channel
EndChannel ==
    /\ pc = "posts"
    /\ todo = 0
    /\ pc' = "loop"
    /\ ci' = ci + 1
    /\ last_io' = Sleep(last_io)
    /\ ev' = Event("endchannel", "ok", FALSE, NoResponse)
    /\ UNCHANGED <<todo, all_posts, all_comments, post_id_counter, json_file,
                   summary_file, failed_listings, arg, res>>

(***************************************************************************)
(* The output files                                                        *)
(***************************************************************************)
\* output_data of lines 126-132
LiveDocument ==
    [state |-> "written", total_posts |-> Len(all_posts), fetch_date |-> Now,
     subreddits |-> subreddits, posts |-> all_posts, comments |-> all_comments]

\* output_data of lines 177-183
FallbackDocument ==
    [state |-> "written", total_posts |-> Len(create_fallback_posts),
     fetch_date |-> Now, posts |-> create_fallback_posts,
     comments |-> create_fallback_comments, source |-> "fallback"]

\* len(all_comments.get(post['id'], []))
CommentCount(post) ==
    IF post.id \in DOMAIN all_comments THEN Len(all_comments[post.id]) ELSE 0

\* the posts whose overview line (line 154) is written before one raises
Overviewable ==
    IF \A i \in 1..Len(all_posts) : Sliceable(all_posts[i].title)
    THEN Len(all_posts)
    ELSE (CHOOSE i \in 1..Len(all_posts) :
             /\ ~Sliceable(all_posts[i].title)
             /\ \A j \in 1..(i - 1) : Sliceable(all_posts[j].title)) - 1

Overview(n) ==
    [i \in 1..n |-> [subreddit |-> all_posts[i].subreddit,
                     comment_count |-> CommentCount(all_posts[i])]]

\* lines 134-136 succeed
WriteJson ==
    /\ pc = "loop"
    /\ ci > NumChannels
    /\ json_file' = LiveDocument
    /\ pc' = "summary"
    /\ ev' = Event("json", "ok", FALSE, NoResponse)
    /\ UNCHANGED <<ci, todo, all_posts, all_comments, post_id_counter,
                   summary_file, last_io, failed_listings, arg, res>>

\* open or json.dump of lines 135-136 raises OSError
WriteJsonFails ==
    /\ pc = "loop"
    /\ ci > NumChannels
    /\ pc' = "except"
    /\ ev' = Event("json", "raise", FALSE, NoResponse)
    /\ UNCHANGED <<ci, todo, all_posts, all_comments, post_id_counter, json_file,
                   summary_file, last_io, failed_listings, arg, res>>

\* lines 141-167: every line of the summary is written, return True
WriteSummary ==
    /\ pc = "summary"
    /\ Overviewable = Len(all_posts)
    /\ summary_file' = [state |-> "complete", overview |-> Overview(Len(all_posts))]
    /\ pc' = "done"
    /\ ev' = Event("summary", "ok", FALSE, NoResponse)
    /\ UNCHANGED <<ci, todo, all_posts, all_comments, post_id_counter, json_file,
                   last_io, failed_listings, arg, res>>

\* line 154 raises on a title that is no str: the file holds the lines
\* written so far
WriteSummaryRaises ==
    /\ pc = "summary"
    /\ Overviewable < Len(all_posts)
    /\ summary_file' = [state |-> "partial", overview |-> Overview(Overviewable)]
    /\ pc' = "except"
    /\ ev' = Event("summary", "raise", FALSE, NoResponse)
    /\ UNCHANGED <<ci, todo, all_posts, all_comments, post_id_counter, json_file,
                   last_io, failed_listings, arg, res>>

\* open of line 142 raises OSError: nothing is written
OpenSummaryFails ==
    /\ pc = "summary"
    /\ pc' = "except"
    /\ ev' = Event("summary", "openfail", FALSE, NoResponse)
    /\ UNCHANGED <<ci, todo, all_posts, all_comments, post_id_counter, json_file,
                   summary_file, last_io, failed_listings, arg, res>>

\* lines 169-190: the handler writes the fallback document, return True
Fallback ==
    /\ pc = "except"
    /\ json_file' = FallbackDocument
    /\ pc' = "done"
    /\ ev' = Event("fallback", "ok", FALSE, NoResponse)
    /\ UNCHANGED <<ci, todo, all_posts, all_comments, post_id_counter,
                   summary_file, last_io, failed_listings, arg, res>>

\* open or json.dump of lines 186-187 raises inside the handler
FallbackFails ==
    /\ pc = "except"
    /\ pc' = "raised"
    /\ ev' = Event("fallback", "raise", FALSE, NoResponse)
    /\ UNCHANGED <<ci, todo, all_posts, all_comments, post_id_counter, json_file,
                   summary_file, last_io, failed_listings, arg, res>>

(***************************************************************************)
(* Inputs of a run: the children a listing can hold and the responses      *)
(* <permalink>.json can give                                               *)
(***************************************************************************)
Hello == <<"h", "e", "l", "l", "o">>
CatUrl == <<"h", "t", "t", "p", ":", "/", "/", "x", ".", "c", "o", "m", "/", "c", "a", "t", ".", "j", "p", "g">>
SomeTitle == <<"T">>
SomePermalink == <<"/", "r", "/", "x", "/", "1">>
LongBody == <<"a", " ", "l", "o", "n", "g", " ", "c", "o", "m", "m", "e", "n", "t">>
\* twelve characters of which ten are left once the markers are stripped
MarkedBody == <<"*", "*", "0", "1", "2", "3", "4", "5", "6", "7", "8", "9">>

TextPost == RawPost(TRUE, FALSE, Str(SomeTitle), Str(<<"a", "1">>), Str(SomePermalink),
                    Str(RedditHost \o SomePermalink), Str(Hello), NoPreview)
ImagePost == RawPost(TRUE, FALSE, Str(SomeTitle), Missing, Missing,
                     Str(CatUrl), Str(<<>>), NoPreview)
RemovedPost == RawPost(TRUE, TRUE, Str(SomeTitle), Str(<<"a", "2">>), Str(SomePermalink),
                       Str(CatUrl), Str(<<>>), NoPreview)
DeletedPost == RawPost(TRUE, FALSE, Str(DeletedMarker), Str(<<"a", "3">>),
                       Str(SomePermalink), Str(CatUrl), Str(<<>>), NoPreview)
NoDataPost == RawPost(FALSE, FALSE, Missing, Missing, Missing, Missing, Missing, NoPreview)
NullUrlPost == RawPost(TRUE, FALSE, Str(SomeTitle), Str(<<"a", "4">>), Str(SomePermalink),
                       None, Str(<<>>), NoPreview)
NullTitlePost == RawPost(TRUE, FALSE, None, Str(<<"a", "5">>), Str(SomePermalink),
                         Str(RedditHost \o SomePermalink), Str(Hello), NoPreview)

RunPosts == {TextPost, ImagePost, RemovedPost, DeletedPost, NoDataPost,
             NullUrlPost, NullTitlePost}

GoodEntry(id) == Entry("t1", TRUE, Str(LongBody), 3, id)
DeletedEntry == Entry("t1", TRUE, Str(DeletedMarker), 0, "d")
ShortEntry == Entry("t1", TRUE, Str(MarkedBody), 0, "s")
NoKindEntry == Entry("missing", TRUE, Str(LongBody), 0, "k")

RunResponses ==
    { Response("fail", <<>>),
      Response("ok", <<GoodEntry("c1"), NoKindEntry, GoodEntry("c2")>>),
      Response("ok", <<DeletedEntry, ShortEntry, GoodEntry("c1"), GoodEntry("c2"),
                       GoodEntry("c3"), GoodEntry("c4"), GoodEntry("c5")>>),
      Response("ok", <<GoodEntry("c1"), GoodEntry("c2"), GoodEntry("c3"),
                       GoodEntry("c4"), GoodEntry("c5"), GoodEntry("c6")>>) }

(***************************************************************************)
(* The run                                                                 *)
(***************************************************************************)
Next ==
    \/ ListingFails
    \/ \E n \in 0..MaxChildren : ListingOk(n)
    \/ \E post_data \in RunPosts : PostRaises(post_data)
    \/ \E post_data \in RunPosts : PostSkipped(post_data)
    \/ \E post_data \in RunPosts : PostAppendedThenRaises(post_data)
    \/ \E post_data \in RunPosts, response \in RunResponses :
          PostWithComments(post_data, response)
    \/ \E post_data \in RunPosts : PostWithoutComments(post_data)
    \/ EndChannel
    \/ WriteJson
    \/ WriteJsonFails
    \/ WriteSummary
    \/ WriteSummaryRaises
    \/ OpenSummaryFails
    \/ Fallback
    \/ FallbackFails

Spec == InitRun /\ [][Next]_vars

(***************************************************************************)
(* The functions on their own: a call with an argument drawn from a        *)
(* bounded set, then its return.  The variables of the run are idle.       *)
(***************************************************************************)
Idle ==
    /\ ci = 1
    /\ todo = 0
    /\ all_posts = <<>>
    /\ all_comments = <<>>
    /\ post_id_counter = 1
    /\ json_file = NoFile
    /\ summary_file = NoFile
    /\ last_io = [req |-> "none", slept |-> FALSE, prev |-> "none", gap |-> FALSE]
    /\ ev = Event("init", "none", FALSE, NoResponse)
    /\ failed_listings = 0

\* convert_reddit_time -----------------------------------------------------
\* the timestamps up to now, the missing one (0) and one that is no number
Timestamps(now) == {Ts(n) : n \in 0..now} \cup {BadTs}

InitTime ==
    /\ Idle
    /\ pc = "call"
    /\ arg \in Timestamps(Now)
    /\ res = ""

CallConvertTime ==
    /\ pc = "call"
    /\ res' \in convert_reddit_time(arg, Now)
    /\ pc' = "returned"
    /\ UNCHANGED <<runvars, arg>>

SpecTime == InitTime /\ [][CallConvertTime]_vars

\* determine_post_type, get_image_url ---------------------------------------
UrlTokens == { <<"x", "/">>, <<".", "j", "p", "g">>, <<".", "j", "p", "e", "g">>, <<".", "P", "N", "G">>,
               <<".", "g", "i", "f">>, <<".", "w", "e", "b", "p">>, <<".", "h", "t", "m">>, <<"t">> }

RECURSIVE UrlsOf(_)
\* the concatenations of at most n tokens
UrlsOf(n) ==
    IF n = 0 THEN {<<>>}
    ELSE LET shorter == UrlsOf(n - 1)
         IN  shorter \cup {u \o t : u \in shorter, t \in UrlTokens}

PreviewUrl == <<"h", "t", "t", "p", ":", "/", "/", "i", "/", "p", "?", "a", "=", "1", "&", "a", "m", "p", ";", "b", "=", "2">>

\* the posts whose url is made of at most parts tokens
TypeInputs(parts) ==
    { [url |-> url, selftext |-> selftext, permalink |-> permalink, preview |-> preview] :
        url \in {Str(u) : u \in UrlsOf(parts) \cup {CatUrl}} \cup {None, Missing},
        selftext \in {Str(<<>>), Str(Hello), Missing},
        permalink \in {Str(<<>>), Str(<<"x", "/">>), Missing},
        preview \in {NoPreview, NullPreview, PreviewNoImages, PreviewEmpty,
                     PreviewOf(PreviewUrl)} }

InitType ==
    /\ Idle
    /\ pc = "call"
    /\ arg \in TypeInputs(MaxUrlParts)
    /\ res = <<>>

\* lines 90-91: the two calls made on the same post
CallPostType ==
    /\ pc = "call"
    /\ res' = [type |-> determine_post_type(arg), image |-> get_image_url(arg)]
    /\ pc' = "returned"
    /\ UNCHANGED <<runvars, arg>>

SpecType == InitType /\ [][CallPostType]_vars

\* fetch_post_comments ------------------------------------------------------
EntryKinds == {"good", "deleted", "short", "nokind"}

\* the entry of a kind at position i of children; its id is its position
EntryAt(kind, i) ==
    CASE kind = "good" -> Entry("t1", TRUE, Str(LongBody), 3, ToString(i))
      [] kind = "deleted" -> Entry("t1", TRUE, Str(DeletedMarker), 0, ToString(i))
      [] kind = "removed" -> Entry("t1", TRUE, Str(RemovedMarker), 0, ToString(i))
      [] kind = "null" -> Entry("t1", TRUE, None, 0, ToString(i))
      [] kind = "nobody" -> Entry("t1", TRUE, Missing, 0, ToString(i))
      [] kind = "short" -> Entry("t1", TRUE, Str(MarkedBody), 0, ToString(i))
      [] kind = "more" -> Entry("more", TRUE, Missing, 0, ToString(i))
      [] kind = "nokind" -> Entry("missing", TRUE, Str(LongBody), 0, ToString(i))
      [] kind = "nodata" -> Entry("t1", FALSE, Missing, 0, ToString(i))
      [] kind = "numbody" -> Entry("t1", TRUE, Num, 0, ToString(i))

OtherKinds == {"removed", "null", "nobody", "more", "nodata", "numbody"}

ChildrenOf(kinds) == [i \in 1..Len(kinds) |-> EntryAt(kinds[i], i)]

RECURSIVE KindSeqs(_, _)
\* the sequences of at most n kinds
KindSeqs(kinds, n) ==
    IF n = 0 THEN {<<>>}
    ELSE LET shorter == KindSeqs(kinds, n - 1)
         IN  shorter \cup {Append(q, k) : q \in shorter, k \in kinds}

\* the responses with at most len entries
CommentInputs(len) ==
    {Response(st, <<>>) : st \in {"fail", "badjson", "short", "nochildren"}}
    \cup {Response("ok", ChildrenOf(q)) : q \in KindSeqs(EntryKinds, len)}
    \cup {Response("ok", ChildrenOf(q)) : q \in KindSeqs(OtherKinds \cup {"good"}, 2)}

InitComments ==
    /\ Idle
    /\ pc = "call"
    /\ arg \in CommentInputs(MaxResponseLen)
    /\ res = <<>>

CallFetchComments ==
    /\ pc = "call"
    /\ res' = fetch_post_comments(arg, Now)
    /\ pc' = "returned"
    /\ UNCHANGED <<runvars, arg>>

SpecComments == InitComments /\ [][CallFetchComments]_vars

\* clean_text, clean_comment_text ---------------------------------------------
TextTokens == { <<"a">>, <<" ">>, <<"\n">>, <<"*">>, <<"g", "t", ";">>,
                EntGt, EntLt, EntAmp, DeletedMarker, RemovedMarker }

RECURSIVE TextsOf(_)
\* the concatenations of at most n tokens
TextsOf(n) ==
    IF n = 0 THEN {<<>>}
    ELSE LET shorter == TextsOf(n - 1)
         IN  shorter \cup {t \o k : t \in shorter, k \in TextTokens}

\* n times the character c
Rep(c, n) == [i \in 1..n |-> c]

\* the texts around the two caps: one character below, at and above each,
\* bare, behind a marker or a blank, and before a second word
LongTexts ==
    { prefix \o Rep("a", n) \o suffix :
        n \in {CommentCap - 1, CommentCap, CommentCap + 1,
               TextCap - 1, TextCap, TextCap + 1},
        prefix \in {<<>>, <<"*">>, <<" ">>},
        suffix \in {<<>>, <<" ", " ", "b">>} }

\* the values of post.get('selftext', '') and comment.get('body', ''): a str
\* of at most parts tokens or around a cap, null, or a number
CleanInputs(parts) ==
    {Str(t) : t \in TextsOf(parts) \cup (IF parts > 0 THEN LongTexts ELSE {})}
    \cup {None, Num}

InitClean ==
    /\ Idle
    /\ pc = "call"
    /\ arg \in CleanInputs(MaxTextParts)
    /\ res = <<>>

\* the two functions called on the same raw text
CallClean ==
    /\ pc = "call"
    /\ res' = [text |-> clean_text(arg), comment |-> clean_comment_text(arg),
               first |-> <<>>]
    /\ pc' = "returned"
    /\ UNCHANGED <<runvars, arg>>

\* each function called on the str it returned; first keeps the results of
\* the first calls
CallCleanAgain ==
    /\ pc = "returned"
    /\ ~res.text.raised
    /\ ~res.comment.raised
    /\ res' = [text |-> clean_text(Str(res.text.val)),
               comment |-> clean_comment_text(Str(res.comment.val)),
               first |-> res]
    /\ pc' = "again"
    /\ UNCHANGED <<runvars, arg>>

SpecClean == InitClean /\ [][CallClean \/ CallCleanAgain]_vars

(***************************************************************************)
(* Properties of the run                                                   *)
(***************************************************************************)
AllListingsFailed ==
    /\ ci > NumChannels
    /\ failed_listings = NumChannels

\* C1: when the listing request of every configured channel failed, the
\* JSON document the run wrote holds exactly the fallback posts and the
\* fallback comments.
C1_FallbackOnTotalFailure ==
    (pc = "done" /\ AllListingsFailed) =>
        /\ json_file.state = "written"
        /\ json_file.posts = create_fallback_posts
        /\ json_file.comments = create_fallback_comments

\* C2: the ids of the accumulated posts are 1, 2, ..., n in list order:
\* they start at 1 and have no gap and no duplicate.
C2_IdsAreOneToN ==
    \A i \in 1..Len(all_posts) : all_posts[i].id = i

\* C3: a run that returned, on the normal or on the fallback path, wrote
\* both reddit_posts.json and posts_summary.txt.
C3_BothFilesWritten ==
    pc = "done" =>
        /\ json_file.state = "written"
        /\ summary_file.state = "complete"

\* C4: a failure while one child of a listing is processed gives no result
\* for that child only: nothing of it is kept, the run is not aborted and
\* the children of the same channel that follow it are still processed.
C4_ItemFailureIsLocal ==
    [][(ev'.kind = "post" /\ ev'.out \in {"raise", "appended_raise"} /\ todo > 1) =>
          /\ all_posts' = all_posts
          /\ pc' = "posts"
          /\ ci' = ci
          /\ todo' = todo - 1]_vars

\* C5: when the listing request of a channel fails, the channel adds no
\* post, the exception stays inside the per-channel guard, the id counter,
\* the posts and the comments collected so far and the output files are
\* unchanged, and the loop goes on with the next channel.
C5_ListingFailureSkipsChannel ==
    [][(ev'.kind = "listing" /\ ev'.out = "fail") =>
          /\ all_posts' = all_posts
          /\ all_comments' = all_comments
          /\ post_id_counter' = post_id_counter
          /\ json_file' = json_file
          /\ summary_file' = summary_file
          /\ pc' = "loop"
          /\ ci' = ci + 1]_vars

\* the listing of a channel failed after posts and comments were collected
\* from an earlier one, and the loop is at its head again for the channel
\* that follows
C5_Witness ==
    /\ ev.kind = "listing"
    /\ ev.out = "fail"
    /\ failed_listings > 0
    /\ all_posts # <<>>
    /\ \A i \in 1..Len(all_posts) : all_posts[i].subreddit # subreddits[ci - 1]
    /\ DOMAIN all_comments # {}
    /\ post_id_counter = Len(all_posts) + 1
    /\ pc = "loop"
    /\ ci > 1

(***************************************************************************)
(* Properties of the sub-item fetch                                        *)
(***************************************************************************)
\* an entry that is kept: a comment whose body is no marker and whose
\* cleaned text is longer than 10 characters
Survives(entry) ==
    /\ entry.kind = "t1"
    /\ Get(entry.body, None) \notin {Str(DeletedMarker), Str(RemovedMarker), None}
    /\ IsStr(entry.body)
    /\ Len(clean_comment_text(entry.body).val) > 10

\* an entry on which a statement of the loop body raises
Malformed(entry) ==
    \/ entry.kind = "missing"
    \/ entry.kind = "t1" /\ (~entry.has_data \/ entry.body.tag = "num")

WellFormed(children) == \A i \in 1..Len(children) : ~Malformed(children[i])

\* a response on which fetch_post_comments meets a failure
Broken(response) ==
    \/ response.status \in {"fail", "badjson"}
    \/ response.status = "ok" /\ ~WellFormed(Take(response.children, 5))

EntryIds(children) == [i \in 1..Len(children) |-> children[i].id]
CommentIds(comments) == [i \in 1..Len(comments) |-> comments[i].reddit_id]

\* C6 as stated: the result is the first 5 surviving entries of the whole
\* response, in the order of the response.
C6_FirstFiveSurvivors ==
    (pc = "returned" /\ arg.status = "ok" /\ WellFormed(arg.children)) =>
        CommentIds(res.val) = EntryIds(Take(SelectSeq(arg.children, Survives), 5))

\* C6 amended: the result is the surviving entries among the first 5
\* entries of the response, in the order of the response; entries past the
\* fifth are never looked at.
C6_SurvivorsOfFirstFive ==
    (pc = "returned" /\ arg.status = "ok" /\ WellFormed(Take(arg.children, 5))) =>
        /\ ~res.failed
        /\ CommentIds(res.val) = EntryIds(SelectSeq(Take(arg.children, 5), Survives))
        /\ \A i \in 1..Len(res.val) : Len(res.val[i].text) > 10

\* at least 5 entries of the response survive, one of the first 5 does not,
\* and fewer than 5 are returned
C6_Witness ==
    /\ pc = "returned"
    /\ arg.status = "ok"
    /\ WellFormed(arg.children)
    /\ Len(SelectSeq(arg.children, Survives)) >= 5
    /\ Len(SelectSeq(Take(arg.children, 5), Survives)) < 5
    /\ Len(res.val) = Len(SelectSeq(Take(arg.children, 5), Survives))
    /\ Len(res.val) > 0

\* C7: the list stored for a post has at most 5 entries, each with a
\* cleaned text longer than 10 characters that is no marker, and each made
\* from an entry of the response whose body was not '[deleted]',
\* '[removed]' or null.
C7_StoredCommentsFiltered ==
    /\ \A k \in DOMAIN all_comments :
          /\ Len(all_comments[k]) <= 5
          /\ \A i \in 1..Len(all_comments[k]) :
                /\ Len(all_comments[k][i].text) > 10
                /\ all_comments[k][i].text \notin {DeletedMarker, RemovedMarker}
    /\ (ev.kind = "post" /\ ev.out = "fetched"
           /\ (post_id_counter - 1) \in DOMAIN all_comments) =>
          \A i \in 1..Len(all_comments[post_id_counter - 1]) :
             \E j \in 1..Len(ev.resp.children) :
                /\ ev.resp.children[j].id = all_comments[post_id_counter - 1][i].reddit_id
                /\ ev.resp.children[j].body
                      \notin {Str(DeletedMarker), Str(RemovedMarker), None, Missing}

\* one post keeps 5 sub-items of a response that had 6, another keeps 3 of
\* a response whose first five held a deleted and a too short entry
C7_Witness ==
    /\ \E k \in DOMAIN all_comments : Len(all_comments[k]) = 5
    /\ \E k \in DOMAIN all_comments : Len(all_comments[k]) = 3
    /\ ev.kind = "post"
    /\ ev.out = "fetched"
    /\ Len(ev.resp.children) > 5

\* C8: a failure inside fetch_post_comments gives the empty list: the post
\* just appended stays in the list with the id of the counter, nothing is
\* stored for it (what was collected before the failure is dropped), the
\* counter moves on and the loop continues with the next child.
C8_CommentFailureIsEmpty ==
    [][(ev'.kind = "post" /\ ev'.out = "fetched" /\ Broken(ev'.resp)) =>
          /\ ev'.failed
          /\ Len(all_posts') = Len(all_posts) + 1
          /\ all_posts'[Len(all_posts')].id = post_id_counter
          /\ all_comments' = all_comments
          /\ post_id_counter \notin DOMAIN all_comments'
          /\ post_id_counter' = post_id_counter + 1
          /\ pc' = "posts"
          /\ ci' = ci
          /\ todo' = todo - 1]_vars

\* the response failed on its second entry after a first one was collected,
\* and a child of the channel is left to process
C8_Witness ==
    /\ ev.kind = "post"
    /\ ev.out = "fetched"
    /\ ev.failed
    /\ ev.resp.status = "ok"
    /\ Survives(ev.resp.children[1])
    /\ Malformed(ev.resp.children[2])
    /\ all_posts # <<>>
    /\ all_posts[Len(all_posts)].id = post_id_counter - 1
    /\ (post_id_counter - 1) \notin DOMAIN all_comments
    /\ pc = "posts"
    /\ todo > 0

(***************************************************************************)
(* Properties of the time and type functions                               *)
(***************************************************************************)
\* the string documented for e whole seconds elapsed
ElapsedText(e) ==
    IF e >= 86400 THEN ToString(e \div 86400) \o " days ago"
    ELSE IF e >= 3600 THEN ToString(e \div 3600) \o " hours ago"
    ELSE IF e >= 60 THEN ToString(e \div 60) \o " minutes ago"
    ELSE "just now"

\* C9: for a positive timestamp T <= now with e seconds elapsed the result
\* is "N days ago" from one day on, else "N hours ago" from one hour on,
\* else "N minutes ago" from one minute on, else "just now".
C9_ElapsedFormat ==
    (pc = "returned" /\ arg.tag = "int" /\ arg.n > 0 /\ arg.n <= Now) =>
        res = ElapsedText(Now - arg.n)

\* the type documented for a post whose url is a str
SuffixType(post) ==
    LET url == Get(post.url, Str(<<>>))
    IN  IF Truthy(Get(post.selftext, Str(<<>>))) THEN "text"
        ELSE IF \E ext \in ImageExts : EndsWith(Lower(url.s), ext) THEN "image"
        ELSE IF url.s # <<>> /\ url # Get(post.permalink, Str(<<>>)) THEN "link"
        ELSE "text"

\* C10: the type is text when the body text is not empty, else image when
\* the url ends with one of the image extensions, else link when there is
\* a url that differs from the permalink, else text.
C10_TypeBySuffix ==
    (pc = "returned" /\ IsStr(Get(arg.url, Str(<<>>)))) =>
        /\ ~res.type.raised
        /\ res.type.val = SuffixType(arg)

(***************************************************************************)
(* Properties of the cleaning functions                                    *)
(***************************************************************************)
NotBlank(c) == c \notin Whitespace

\* a raw text the functions transform: a str that is not empty and is none
\* of the two markers
Transformed(v) == IsStr(v) /\ v.s # <<>> /\ v.s \notin {DeletedMarker, RemovedMarker}

\* the transformation as documented: markers stripped, entities decoded,
\* whitespace collapsed, cut at the cap with an ellipsis
DocumentedClean(s, cap) == Truncate(Join(Split(StripMarkup(s))), cap)

\* blanks only as single spaces between two other characters
SingleSpaced(s) ==
    \A i \in 1..Len(s) :
        s[i] \in Whitespace =>
            /\ s[i] = " "
            /\ 1 < i
            /\ i < Len(s)
            /\ s[i + 1] \notin Whitespace

\* C11 as stated: clean_text and clean_comment_text are the same
\* transformation up to the cap (500 and 300): markers '**' and '*'
\* stripped, &gt; &lt; &amp; decoded, whitespace runs collapsed, and a
\* longer result cut at the cap with '...' appended.
C11_SameCleaning ==
    (pc = "returned" /\ Transformed(arg)) =>
        /\ res.text = Ret(DocumentedClean(arg.s, 500))
        /\ res.comment = Ret(DocumentedClean(arg.s, 300))

\* C11 amended: only clean_comment_text strips the markers and decodes the
\* entities; clean_text collapses the whitespace and cuts at 500, and keeps
\* every other character of the raw text, '*' and '&gt;' included.
C11_CleaningPerFunction ==
    (pc = "returned" /\ Transformed(arg)) =>
        /\ res.comment = Ret(DocumentedClean(arg.s, 300))
        /\ res.text = Ret(Truncate(Join(Split(arg.s)), 500))
        /\ SingleSpaced(res.text.val)
        /\ SingleSpaced(res.comment.val)
        /\ Len(res.text.val) <= 500 =>
              SelectSeq(res.text.val, NotBlank) = SelectSeq(arg.s, NotBlank)
        /\ Len(res.text.val) > 500 =>
              /\ Len(res.text.val) = 503
              /\ SubSeq(res.text.val, 501, 503) = Ellipsis

\* a raw text with a marker, an entity and a blank: the item body keeps the
\* marker and the entity, the sub-item body has neither
C11_Witness ==
    /\ pc = "returned"
    /\ Transformed(arg)
    /\ Contains(arg.s, <<"*">>)
    /\ Contains(arg.s, EntAmp)
    /\ Contains(res.text.val, <<"*">>)
    /\ Contains(res.text.val, EntAmp)
    /\ ~Contains(res.comment.val, <<"*">>)
    /\ ~Contains(res.comment.val, EntAmp)
    /\ res.comment.val # <<>>

\* a str of blanks only, the empty str included
Blank(s) == \A i \in 1..Len(s) : s[i] \in Whitespace

Markers == {DeletedMarker, RemovedMarker}

\* a text in which an encoded entity is left
Encoded(s) == \E ent \in {EntGt, EntLt, EntAmp} : Contains(s, ent)

\* C13 as stated: for every input that does not exceed the cap, cleaning
\* the cleaned text again changes nothing, for clean_text (cap 500) and for
\* clean_comment_text (cap 300).
C13_Idempotent ==
    (pc = "again" /\ IsStr(arg)) =>
        /\ Len(arg.s) <= 500 => res.text = res.first.text
        /\ Len(arg.s) <= 300 => res.comment = res.first.comment

\* C13 amended: within the cap, cleaning again changes nothing unless the
\* first result is one of the two markers (the second call then returns
\* the empty string) or, for clean_comment_text, still holds an encoded
\* entity (the second call then decodes it).
C13_IdempotentOffMarkers ==
    (pc = "again" /\ IsStr(arg)) =>
        /\ (Len(arg.s) <= 500 /\ res.first.text.val \notin Markers) =>
              res.text = res.first.text
        /\ (Len(arg.s) <= 300 /\ res.first.comment.val \notin Markers
                /\ ~Encoded(res.first.comment.val)) =>
              res.comment = res.first.comment
        /\ res.first.text.val \in Markers => res.text = Ret(<<>>)
        /\ res.first.comment.val \in Markers => res.comment = Ret(<<>>)
        /\ (Len(arg.s) <= 300 /\ Encoded(res.first.comment.val)) =>
              res.comment # res.first.comment

\* a raw text with a marker character and a leading blank, changed by the
\* first call of either function and left alone by the second
C13_Witness ==
    /\ pc = "again"
    /\ IsStr(arg)
    /\ Len(arg.s) <= 300
    /\ Contains(arg.s, <<"*">>)
    /\ arg.s[1] \in Whitespace
    /\ res.first.text.val \notin {<<>>, arg.s}
    /\ res.first.comment.val \notin {<<>>, arg.s}
    /\ res.text = res.first.text
    /\ res.comment = res.first.comment

(***************************************************************************)
(* Properties of the requests and of the comments mapping                  *)
(***************************************************************************)
\* C14: a sleep runs between two consecutive sub-item requests and between
\* the listing requests of two consecutive channels, whatever the outcome
\* of the earlier request: no two of them are sent back to back.
C14_SleepBetweenRequests ==
    (last_io.prev \in {"listing", "comments"} /\ last_io.req = last_io.prev) =>
        last_io.gap

\* the positions of all_posts that carry the id k
ItemsWithId(k) == {i \in 1..Len(all_posts) : all_posts[i].id = k}

\* C15: off the fallback path, every key of the comments mapping is the id
\* of exactly one post of the list, the list mapped is not empty, and it
\* is the list fetched for that post.
C15_KeysMatchItems ==
    (pc \notin {"except", "raised"} /\ json_file # FallbackDocument) =>
        /\ \A k \in DOMAIN all_comments :
              /\ Cardinality(ItemsWithId(k)) = 1
              /\ all_comments[k] # <<>>
        /\ (ev.kind = "post" /\ ev.out = "fetched"
               /\ fetch_post_comments(ev.resp, Now).val # <<>>) =>
              /\ ItemsWithId(post_id_counter - 1) = {Len(all_posts)}
              /\ all_comments[post_id_counter - 1]
                    = fetch_post_comments(ev.resp, Now).val

====
